---- MODULE Spec2Model ----
(***************************************************************************)
(* Model of the uptime monitor: scripts/monitor.py (a monitoring run: load  *)
(* the history, probe, merge, prune, persist, draw the hourly heatmap      *)
(* grid of each target), scripts/archive.py (move the old records from the *)
(* results file to the archive file) and .github/workflows/monitor.py (the *)
(* single-host ping log and its 6-hourly sparkline).                       *)
(*                                                                         *)
(* Four specifications: Spec (monitoring runs of main, from any results    *)
(* file), ChartSpec (generate_chart called on enumerated histories and     *)
(* target lists, then generate_html_report), ArchiveSpec (archive_old_data *)
(* on enumerated results and archive files) and LegacySpec (a run of the   *)
(* workflow script on enumerated logs).                                    *)
(*                                                                         *)
(* Time is counted in ticks, TicksPerHour ticks to the hour.  An instant   *)
(* is a number of ticks since 2026-01-01T00:00Z; a date is a number of     *)
(* days since 2026-01-01.  US/Eastern follows its 2026 rule: UTC-5, and    *)
(* UTC-4 from 2026-03-08 02:00 EST to 2026-11-01 02:00 EDT.                *)
(***************************************************************************)
EXTENDS Integers, Sequences, FiniteSets, TLC

\* ---------------------------------------------------------------- bounds
TicksPerHour == 2
\* the clock, in Eastern wall time, at the start of a behaviour: 2026-11-10
\* 12:00 EST, so that the 30 days before it hold the end of daylight saving
StartDay == 313
StartHour == 12
\* the date of the other start of a chart behaviour: 2026-03-08, the day
\* daylight saving begins
SpringDay == 66
\* how far the clock may advance during a behaviour, in ticks
MaxTicks == 1
\* records in a file at the start of a behaviour
MaxFile == 1
\* rows handed to generate_chart when it is exercised on its own
MaxRows == 2
\* monitoring runs in a behaviour
MaxRuns == 1
\* records in the archive file at the start of a behaviour
MaxArchive == 1
\* rows in status_log.csv at the start of a behaviour
MaxLog == 2

\* ------------------------------------------------------ program constants
HISTORY_DAYS == 30
HoursPerDay == 24
\* US/Eastern: utc offsets in hours, the dates of the 2026 transitions and
\* the wall hour at which they happen
StdOffsetHours == -5
DstOffsetHours == -4
DstStartDay == 66
DstEndDay == 304
TransitionHour == 2
\* status_map and the value pandas leaves in a cell with no data
UpVal == 2
DownVal == 1
MissingVal == 0
NaN == -1
\* .github/workflows/monitor.py: the days of log the sparkline shows, the
\* hours of a resample bin, the values of Up and Down and the value fillna(0)
\* gives a bin that is still empty after the forward fill
LEGACY_DAYS == 7
ResampleHours == 6
SparkUp == 1
SparkDown == 0
SparkFill == 0

TicksPerDay == HoursPerDay * TicksPerHour
EST == StdOffsetHours * TicksPerHour
EDT == DstOffsetHours * TicksPerHour
UTC == 0

Resources == {"A", "B"}
Statuses == {"Up", "Down"}

Range(s) == {s[i] : i \in DOMAIN s}

\* ------------------------------------------------------------- datetimes
\* the instants at which daylight saving begins and ends
DstStart == (DstStartDay * HoursPerDay + TransitionHour) * TicksPerHour - EST
DstEnd == (DstEndDay * HoursPerDay + TransitionHour) * TicksPerHour - EDT

\* EASTERN_TZ.utcoffset at the instant t
utcoffset(t) == IF DstStart <= t /\ t < DstEnd THEN EDT ELSE EST

\* the utc offset pytz's localize (is_dst=False) and pandas give an Eastern
\* wall reading: a reading the spring transition skips and a reading the
\* autumn transition repeats both get the standard offset
wall_utcoffset(wall) ==
    IF DstStart + EDT <= wall /\ wall < DstEnd + EST THEN EDT ELSE EST

\* An ISO-8601 string is [kind, wall, off]: "aware" strings carry a wall
\* clock reading and a utc offset, "naive" strings a wall clock reading
\* only, "bad" strings do not parse.  A datetime is [aware, wall, off].
fromisoformat(s) == [aware |-> s.kind = "aware", wall |-> s.wall, off |-> s.off]

isoformat(dt) ==
    [kind |-> IF dt.aware THEN "aware" ELSE "naive", wall |-> dt.wall, off |-> dt.off]

\* datetime.now(EASTERN_TZ) at clock reading c (an instant)
datetime_now(c) == [aware |-> TRUE, wall |-> c + utcoffset(c), off |-> utcoffset(c)]

timedelta(days) == days * TicksPerDay

\* datetime - timedelta: the wall reading moves, the tzinfo stays
minus(dt, delta) == [dt EXCEPT !.wall = @ - delta]

\* the instant an aware datetime denotes
Instant(dt) == dt.wall - dt.off

\* EASTERN_TZ.localize(dt): the naive wall reading is taken as Eastern wall
\* time
localize(dt) == [aware |-> TRUE, wall |-> dt.wall, off |-> wall_utcoffset(dt.wall)]

\* pd.to_datetime(..., utc=True): an aware string goes to its instant, a
\* naive string is read as UTC
to_datetime_utc(s) == IF s.kind = "aware" THEN s.wall - s.off ELSE s.wall

\* .dt.tz_convert('US/Eastern'): the Eastern wall reading of an instant
tz_convert_eastern(t) == t + utcoffset(t)

dt_date(wall) == wall \div TicksPerDay
dt_hour(wall) == (wall \div TicksPerHour) % HoursPerDay

\* pd.Timestamp(date, tz='US/Eastern').replace(hour=h): its instant
EasternTimestamp(d, h) ==
    LET wall == (d * HoursPerDay + h) * TicksPerHour
    IN  wall - wall_utcoffset(wall)

status_map(s) == IF s = "Up" THEN UpVal ELSE DownVal

Entry(r, st, ts) == [resource |-> r, status |-> st, timestamp |-> ts]
Aware(instant, off) == [kind |-> "aware", wall |-> instant + off, off |-> off]
Naive(wall) == [kind |-> "naive", wall |-> wall, off |-> 0]
Bad == [kind |-> "bad", wall |-> 0, off |-> 0]

\* the instant of the clock at the start of a behaviour
Clock0 == EasternTimestamp(StartDay, StartHour)
SpringClock0 == EasternTimestamp(SpringDay, StartHour)

SeqsUpTo(S, n) == UNION {[1..k -> S] : k \in 0..n}

VARIABLES
    clock,          \* the system clock, an instant
    pc,             \* position of the running script
    targets,        \* read_targets(): the urls, in order
    results_file,   \* docs/data/results.json: [whole, data]
    archive_file,   \* docs/data/archive.json: [whole, data]
    historical_data,
    current_results,
    combined_data,
    cutoff_date,
    pruned_data,
    error,          \* exception that ended the run, "none" otherwise
    chart_i,        \* generate_chart: position of resource_url in target_urls
    end_date,       \* generate_chart: end_date of the current iteration
    charts,         \* the charts drawn so far in this run, by resource:
                    \* [end_date, now_et, hourly_status]
    failed_charts,  \* the resources whose iteration of generate_chart
                    \* raised and was logged as an error in this run
    saved,          \* whether this run's json.dump completed
    runs,           \* monitoring runs started so far
    all_data,       \* archive.py: the loaded results
    archive_data,   \* archive.py: the loaded archive
    new_results,    \* archive.py: the records to keep
    old_results,    \* archive.py: the records to archive
    status_log,     \* workflows/monitor.py: the rows of status_log.csv
    sparkline_data  \* workflows/monitor.py: data, the values plotted

vars == <<clock, pc, targets, results_file, archive_file, historical_data,
          current_results, combined_data, cutoff_date, pruned_data, error,
          chart_i, end_date, charts, failed_charts, saved, runs, all_data,
          archive_data,
          new_results, old_results, status_log, sparkline_data>>

\* the variables of scripts/archive.py
arch == <<all_data, archive_data, new_results, old_results>>

\* the variables of .github/workflows/monitor.py
legacy == <<status_log, sparkline_data>>

\* ------------------------------------------------- monitor.py generate_chart
\* df[df['resource'] == resource_url]: the rows (positions in df = pd.DataFrame(all_data))
resource_df(df, resource_url) ==
    {i \in DOMAIN df : df[i].resource = resource_url}

\* df['timestamp'] after to_datetime(utc=True): the instant of row i
RowInstant(df, i) == to_datetime_utc(df[i].timestamp)

\* (df['date'], df['hour']) of row i, read off the Eastern wall reading
RowKey(df, i) ==
    <<dt_date(tz_convert_eastern(RowInstant(df, i))),
      dt_hour(tz_convert_eastern(RowInstant(df, i)))>>

\* resource_df.sort_values('timestamp'): every order of the rows that is
\* ascending in the timestamp, built from a row of least timestamp onwards.
\* The default sort (quicksort) is not stable, so rows with equal timestamps
\* may come out in any order.
RECURSIVE sort_values(_, _)
sort_values(df, rows) ==
    IF rows = {} THEN {<<>>}
    ELSE LET least == {i \in rows :
                          \A j \in rows : RowInstant(df, i) <= RowInstant(df, j)}
         IN  UNION {{<<i>> \o o : o \in sort_values(df, rows \ {i})} : i \in least}

\* mutant: keep='first', the earliest row of each (date, hour) wins
drop_duplicates_first(df, o) ==
    {o[j] : j \in {j \in DOMAIN o :
        \A k \in DOMAIN o : k < j => RowKey(df, o[k]) # RowKey(df, o[j])}}

\* .drop_duplicates(['date', 'hour'], keep='last') of the sorted rows
drop_duplicates(df, o) ==
    {o[j] : j \in {j \in DOMAIN o :
        \A k \in DOMAIN o : k > j => RowKey(df, o[k]) # RowKey(df, o[j])}}

\* start_date = end_date - timedelta(days=HISTORY_DAYS - 1)
start_date(end) == end - (HISTORY_DAYS - 1)

\* pd.date_range(start=start_date, end=end_date, freq='D').date
date_range(end) == start_date(end)..end

\* the rows of scaffold_df whose (date, hour) is c: the instants of
\* hourly_range (every hour from start_ts to end_ts) with that Eastern wall
\* reading.  None for the hour the spring transition skips, two for the hour
\* the autumn transition repeats.
scaffold_df(end, c) ==
    LET wall == (c[1] * HoursPerDay + c[2]) * TicksPerHour
        start_ts == EasternTimestamp(start_date(end), 0)
        end_ts == EasternTimestamp(end, HoursPerDay - 1)
    IN  {t \in {wall - EST, wall - EDT} :
            /\ start_ts <= t /\ t <= end_ts
            /\ tz_convert_eastern(t) = wall}

\* hourly_status[['date', 'hour', 'status_val']]: status_val by (date, hour)
status_val(df, hourly_status) ==
    [k \in {RowKey(df, i) : i \in hourly_status} |->
        status_map(df[CHOOSE i \in hourly_status : RowKey(df, i) = k].status)]

\* pd.merge(scaffold_df, hourly_status, on=['date', 'hour'], how='left'):
\* status_val of a scaffold row of (date, hour) c, NaN where no row matches
merged_df(vals, c) == IF c \in DOMAIN vals THEN vals[c] ELSE NaN

\* merged_df.loc[timestamp < now_et, 'status_val'].fillna(0) on the scaffold
\* row of timestamp ts holding v
fillna_past(v, ts, now) == IF ts < now /\ v = NaN THEN MissingVal ELSE v

RECURSIVE SumOver(_, _)
SumOver(f, S) ==
    IF S = {} THEN 0
    ELSE LET x == CHOOSE y \in S : TRUE
         IN  f[x] + SumOver(f, S \ {x})

\* one cell of pivot_table(index='hour', columns='date', values='status_val')
\* after reindex: the mean of the values of the cell's rows that are not NaN,
\* NaN when there is none.  (The rows of a cell hold one value or 0 and NaN,
\* so the mean is a whole number.)
pivot_table(values) ==
    LET held == {t \in DOMAIN values : values[t] # NaN}
    IN  IF held = {} THEN NaN ELSE SumOver(values, held) \div Cardinality(held)

\* grid_df.loc[h, d] of a chart: merge, fill, pivot_table and
\* reindex(index=range(24), columns=date_range)
grid_df(chart, d, h) ==
    pivot_table([t \in scaffold_df(chart.end_date, <<d, h>>) |->
        fillna_past(merged_df(chart.hourly_status, <<d, h>>), t, Instant(chart.now_et))])

\* the index (hours) and the columns (dates) of grid_df
grid_index == 0..(HoursPerDay - 1)
grid_columns(chart) == date_range(chart.end_date)

target_urls == targets

\* the variables of a run (the process's memory and the charts it has
\* drawn) and of the files
memory == <<targets, historical_data, current_results, combined_data,
            cutoff_date, pruned_data, error, chart_i, end_date, saved>>
locals == <<memory, charts, failed_charts>>
files == <<results_file, archive_file>>

\* generate_chart up to its loop: nothing is drawn for an empty history, and
\* to_datetime raises on a string that is no ISO-8601 timestamp
generate_chart ==
    /\ pc = "chart"
    /\ IF pruned_data = <<>>
       THEN pc' = "report" /\ error' = error
       ELSE IF \E i \in DOMAIN pruned_data : pruned_data[i].timestamp.kind = "bad"
       THEN pc' = "aborted" /\ error' = "ValueError"
       ELSE pc' = "dates" /\ error' = error
    /\ chart_i' = 1
    /\ UNCHANGED <<clock, files, targets, historical_data, current_results,
                   combined_data, cutoff_date, pruned_data, end_date, charts,
                   failed_charts,
                   saved, runs, arch, legacy>>

\* what follows an iteration of `for resource_url in target_urls`
NextResource == IF chart_i < Len(target_urls) THEN "dates" ELSE "report"

\* an iteration up to start_date: a resource with no row is skipped, for the
\* others the clock is read for end_date
ChartDates ==
    /\ pc = "dates"
    /\ IF resource_df(pruned_data, target_urls[chart_i]) = {}
       THEN /\ pc' = NextResource
            /\ chart_i' = chart_i + 1
            /\ end_date' = end_date
       ELSE /\ pc' = "grid"
            /\ chart_i' = chart_i
            /\ end_date' = dt_date(datetime_now(clock).wall)
    /\ UNCHANGED <<clock, files, targets, historical_data, current_results,
                   combined_data, cutoff_date, pruned_data, error, charts,
                   failed_charts,
                   saved, runs, arch, legacy>>

\* the rest of the iteration when nothing raises: the clock is read again
\* for now_et and the chart is saved; the chart is kept as the values it is
\* drawn from, its grid is grid_df
ChartGrid ==
    /\ pc = "grid"
    /\ LET resource_url == target_urls[chart_i]
           now_et == datetime_now(clock)
       IN  \E sorted \in sort_values(pruned_data, resource_df(pruned_data, resource_url)) :
              charts' = [u \in DOMAIN charts \cup {resource_url} |->
                  IF u = resource_url
                  THEN [end_date |-> end_date,
                        now_et |-> now_et,
                        hourly_status |->
                            status_val(pruned_data, drop_duplicates(pruned_data, sorted))]
                  ELSE charts[u]]
    /\ pc' = NextResource
    /\ chart_i' = chart_i + 1
    /\ UNCHANGED <<clock, files, targets, historical_data, current_results,
                   combined_data, cutoff_date, pruned_data, error, end_date,
                   failed_charts, saved, runs, arch, legacy>>

\* the rest of the iteration when something raises (plt.savefig on a full
\* disk, say): `except Exception` logs the error, no chart is saved for the
\* resource and the loop goes on with the next one
ChartFails ==
    /\ pc = "grid"
    /\ failed_charts' = failed_charts \cup {target_urls[chart_i]}
    /\ pc' = NextResource
    /\ chart_i' = chart_i + 1
    /\ UNCHANGED <<clock, files, targets, historical_data, current_results,
                   combined_data, cutoff_date, pruned_data, error, end_date,
                   charts, saved, runs, arch, legacy>>

\* generate_html_report writes docs/index.html, which is no part of the
\* state, and main returns
generate_html_report ==
    /\ pc = "report"
    /\ pc' = "done"
    /\ UNCHANGED <<clock, files, locals, runs, arch, legacy>>

TargetLists == {<<"A">>, <<"A", "B">>}

EmptyFile == [whole |-> TRUE, data |-> <<>>]

\* ------------------------------------------------------ monitor.py main
\* json.load of the results file; a missing, truncated or malformed file
\* (whole = FALSE) gives the empty history
load_historical_data(file) == IF file.whole THEN file.data ELSE <<>>

\* the exception the filter of save_and_prune_data raises on an entry:
\* fromisoformat rejects a malformed string, and a naive datetime cannot be
\* compared with the zone-aware cutoff
entry_raises(entry) ==
    IF entry.timestamp.kind = "bad" THEN "ValueError"
    ELSE IF ~fromisoformat(entry.timestamp).aware THEN "TypeError"
    ELSE "none"

\* the exception of the list comprehension: that of the first entry raising
prune_raises(data) ==
    LET faulty == {i \in DOMAIN data : entry_raises(data[i]) # "none"}
    IN  IF faulty = {} THEN "none"
        ELSE entry_raises(data[CHOOSE i \in faulty : \A j \in faulty : i <= j])

\* mutant: the wall clock readings are compared, the utc offsets ignored
keep_entry_wall(entry, cutoff) ==
    fromisoformat(entry.timestamp).wall > cutoff.wall

\* datetime.fromisoformat(entry['timestamp']) > cutoff_date
keep_entry(entry, cutoff) ==
    Instant(fromisoformat(entry.timestamp)) > Instant(cutoff)

prune(data, cutoff) ==
    LET Keep(entry) == keep_entry(entry, cutoff)
    IN  SelectSeq(data, Keep)

Idle == pc \in {"idle", "done", "aborted", "killed"}

\* the value of cutoff_date before save_and_prune_data has assigned it
NoCutoff == [aware |-> TRUE, wall |-> 0, off |-> UTC]

\* the memory of a process that has not run yet
NoRun ==
    /\ targets = <<>>
    /\ historical_data = <<>>
    /\ current_results = <<>>
    /\ combined_data = <<>>
    /\ cutoff_date = NoCutoff
    /\ pruned_data = <<>>
    /\ error = "none"
    /\ chart_i = 1
    /\ end_date = 0
    /\ saved = FALSE

\* main up to the probe loop: read_targets and load_historical_data
StartRun ==
    /\ Idle
    /\ runs < MaxRuns
    /\ runs' = runs + 1
    /\ targets' \in TargetLists
    /\ historical_data' = load_historical_data(results_file)
    /\ current_results' = <<>>
    /\ combined_data' = <<>>
    /\ pruned_data' = <<>>
    /\ cutoff_date' = NoCutoff
    /\ saved' = FALSE
    /\ error' = "none"
    /\ chart_i' = 1
    /\ end_date' = 0
    /\ charts' = <<>>
    /\ failed_charts' = {}
    /\ pc' = "probe"
    /\ UNCHANGED <<clock, files, arch, legacy>>

\* an iteration of `for target_host in target_urls`: the probe answers Up or
\* Down (a timeout or any request exception is Down) and the record is
\* stamped with the clock read after the answer
Probe ==
    /\ pc = "probe"
    /\ LET target_host == target_urls[Len(current_results) + 1]
       IN  \E status \in Statuses :
              current_results' = Append(current_results,
                  Entry(target_host, status, isoformat(datetime_now(clock))))
    /\ pc' = IF Len(current_results) + 1 < Len(target_urls) THEN "probe" ELSE "prune"
    /\ UNCHANGED <<clock, files, targets, historical_data, combined_data,
                   cutoff_date, pruned_data, error, chart_i, end_date, charts,
                   failed_charts,
                   saved, runs, arch, legacy>>

\* combined_data = historical_data + current_results, then the filter of
\* save_and_prune_data; an exception of the filter ends the run
save_and_prune_data ==
    /\ pc = "prune"
    /\ LET data == historical_data \o current_results
           cutoff == minus(datetime_now(clock), timedelta(HISTORY_DAYS))
       IN  /\ combined_data' = data
           /\ cutoff_date' = cutoff
           /\ error' = prune_raises(data)
           /\ IF prune_raises(data) = "none"
              THEN pruned_data' = prune(data, cutoff) /\ pc' = "open"
              ELSE pruned_data' = <<>> /\ pc' = "aborted"
    /\ UNCHANGED <<clock, files, targets, historical_data, current_results,
                   chart_i, end_date, charts, failed_charts, saved, runs, arch, legacy>>

\* os.makedirs(os.path.dirname(file_path), exist_ok=True) raises (the
\* directory is missing, and with it the file, and cannot be made: 'docs' is
\* a regular file, the disk is read-only or full): nothing catches it, the
\* run ends before any chart or report
MakedirsFails ==
    /\ pc = "open"
    /\ results_file = [whole |-> FALSE, data |-> <<>>]
    /\ pc' = "aborted"
    /\ error' = "OSError"
    /\ UNCHANGED <<clock, files, targets, historical_data, current_results,
                   combined_data, cutoff_date, pruned_data, chart_i, end_date,
                   charts, failed_charts, saved, runs, arch, legacy>>

\* open(file_path, "w") truncates the file in place
OpenResults ==
    /\ pc = "open"
    /\ results_file' = [whole |-> FALSE, data |-> <<>>]
    /\ pc' = "write"
    /\ UNCHANGED <<clock, archive_file, locals, runs, arch, legacy>>

\* open raises IOError: logged, the file is left as it was
OpenResultsFails ==
    /\ pc = "open"
    /\ pc' = "chart"
    /\ UNCHANGED <<clock, files, locals, runs, arch, legacy>>

\* json.dump: the next record reaches the disk
WriteRecord ==
    /\ pc = "write"
    /\ Len(results_file.data) < Len(pruned_data)
    /\ results_file' = [whole |-> FALSE,
                        data |-> Append(results_file.data,
                                        pruned_data[Len(results_file.data) + 1])]
    /\ UNCHANGED <<clock, pc, archive_file, locals, runs, arch, legacy>>

\* a write raises IOError: logged, the file is left truncated
WriteFails ==
    /\ pc = "write"
    /\ pc' = "chart"
    /\ UNCHANGED <<clock, files, locals, runs, arch, legacy>>

\* the closing bracket is written and the file closed
CloseResults ==
    /\ pc = "write"
    /\ Len(results_file.data) = Len(pruned_data)
    /\ results_file' = [whole |-> TRUE, data |-> results_file.data]
    /\ saved' = TRUE
    /\ pc' = "chart"
    /\ UNCHANGED <<clock, archive_file, targets, historical_data,
                   current_results, combined_data, cutoff_date, pruned_data,
                   error, chart_i, end_date, charts, failed_charts, runs, arch, legacy>>

\* the process is killed (the job is cancelled, the machine stops): its
\* memory is gone, the files and the charts drawn so far stay
Interrupt ==
    /\ ~Idle
    /\ pc' = "killed"
    /\ targets' = <<>>
    /\ historical_data' = <<>>
    /\ current_results' = <<>>
    /\ combined_data' = <<>>
    /\ cutoff_date' = NoCutoff
    /\ pruned_data' = <<>>
    /\ error' = "none"
    /\ chart_i' = 1
    /\ end_date' = 0
    /\ saved' = FALSE
    /\ UNCHANGED <<clock, files, charts, failed_charts, runs, arch, legacy>>

\* the instants at which a behaviour may start
Starts == {Clock0, SpringClock0}

\* time passes while a script runs
Tick ==
    /\ ~Idle
    /\ \E s \in Starts : s <= clock /\ clock < s + MaxTicks
    /\ clock' = clock + 1
    /\ UNCHANGED <<pc, files, locals, runs, arch, legacy>>

\* the cutoff of a run that prunes at the start of a behaviour
Cutoff0 == Clock0 - timedelta(HISTORY_DAYS)

\* what the results file may hold when a behaviour starts: records around
\* the cutoff with their utc offsets, a naive timestamp and a malformed one
FileEntries ==
    { Entry("A", "Up",   Aware(Cutoff0 - 1, UTC)),
      Entry("A", "Down", Aware(Cutoff0, utcoffset(Cutoff0))),
      Entry("A", "Up",   Aware(Cutoff0 + 1, utcoffset(Cutoff0 + 1))),
      Entry("A", "Up",   Naive(Cutoff0 + EST + 1)),
      Entry("A", "Down", Bad) }

NoArchiving ==
    /\ all_data = <<>>
    /\ archive_data = <<>>
    /\ new_results = <<>>
    /\ old_results = <<>>

NoLegacy ==
    /\ status_log = <<>>
    /\ sparkline_data = <<>>

Init ==
    /\ clock = Clock0
    /\ pc = "idle"
    /\ \/ results_file \in {[whole |-> TRUE, data |-> d] :
                               d \in SeqsUpTo(FileEntries, MaxFile)}
       \/ results_file = [whole |-> FALSE, data |-> <<>>]
    /\ archive_file = EmptyFile
    /\ NoRun
    /\ charts = <<>>
    /\ failed_charts = {}
    /\ runs = 0
    /\ NoArchiving
    /\ NoLegacy

Next ==
    \/ StartRun \/ Probe \/ save_and_prune_data
    \/ MakedirsFails
    \/ OpenResults \/ OpenResultsFails \/ WriteRecord \/ WriteFails \/ CloseResults
    \/ generate_chart \/ ChartDates \/ ChartGrid \/ ChartFails
    \/ generate_html_report
    \/ Interrupt \/ Tick

Spec == Init /\ [][Next]_vars

\* ------------------ generate_chart(all_data, target_urls) called on its own
\* rows around three consecutive past hours, the current hour and a later
\* hour of the current day, and a row whose timestamp is malformed
ChartEntries ==
    { Entry("A", "Up",   Aware(Clock0 - 3 * TicksPerHour, EST)),
      Entry("A", "Down", Aware(Clock0 - 3 * TicksPerHour, EST)),
      Entry("A", "Down", Aware(Clock0 - 1 * TicksPerHour, EST)),
      Entry("A", "Up",   Aware(Clock0 - 1 * TicksPerHour + 1, UTC)),
      Entry("A", "Up",   Aware(Clock0 + 2 * TicksPerHour, EST)),
      Entry("B", "Down", Aware(Clock0 - 2 * TicksPerHour, EST)),
      Entry("A", "Down", Bad) }

\* rows in the hour the autumn transition repeats, one in each pass
AutumnEntries ==
    { Entry("A", "Up",   Aware(DstEnd - 1, EDT)),
      Entry("A", "Down", Aware(DstEnd + 1, EST)) }

\* rows before and after the hour the spring transition skips
SpringEntries ==
    { Entry("A", "Down", Aware(DstStart - 1, EST)),
      Entry("A", "Up",   Aware(DstStart, EDT)) }

\* the arguments of the call: all_data is any list of rows (the empty list,
\* rows of one target only, a malformed row), target_urls a list of targets
ChartInit ==
    /\ \/ /\ clock = Clock0
          /\ pruned_data \in SeqsUpTo(ChartEntries, MaxRows)
                              \cup SeqsUpTo(AutumnEntries, MaxRows)
       \/ /\ clock = SpringClock0
          /\ pruned_data \in SeqsUpTo(SpringEntries, MaxRows)
    /\ pc = "chart"
    /\ targets \in TargetLists
    /\ results_file = EmptyFile
    /\ archive_file = EmptyFile
    /\ historical_data = <<>>
    /\ current_results = <<>>
    /\ combined_data = <<>>
    /\ cutoff_date = NoCutoff
    /\ error = "none"
    /\ chart_i = 1
    /\ end_date = 0
    /\ charts = <<>>
    /\ failed_charts = {}
    /\ saved = FALSE
    /\ runs = 1
    /\ NoArchiving
    /\ NoLegacy

ChartNext ==
    \/ generate_chart \/ ChartDates \/ ChartGrid \/ ChartFails
    \/ generate_html_report
    \/ Tick

ChartSpec == ChartInit /\ [][ChartNext]_vars

\* ------------------------------------------- archive.py archive_old_data
\* entry_timestamp < cutoff_date, a naive timestamp localized to Eastern first
is_old(entry, cutoff) ==
    LET parsed == fromisoformat(entry.timestamp)
        entry_timestamp == IF parsed.aware THEN parsed ELSE localize(parsed)
    IN  Instant(entry_timestamp) < Instant(cutoff)

\* lines 17-56: load both files and split the results into old and new.  An
\* unreadable results file ends the call; an unreadable archive counts as
\* empty; fromisoformat raises on a malformed timestamp and ends the script.
ArchiveLoad ==
    /\ pc = "archive"
    /\ IF ~results_file.whole
       THEN /\ pc' = "archive_done"
            /\ UNCHANGED <<error, arch, legacy>>
       ELSE LET data == results_file.data
                cutoff == minus(datetime_now(clock), timedelta(HISTORY_DAYS))
                Old(entry) == is_old(entry, cutoff)
                New(entry) == ~is_old(entry, cutoff)
            IN  /\ all_data' = data
                /\ archive_data' = IF archive_file.whole THEN archive_file.data ELSE <<>>
                /\ IF \E i \in DOMAIN data : data[i].timestamp.kind = "bad"
                   THEN /\ pc' = "aborted"
                        /\ error' = "ValueError"
                        /\ UNCHANGED <<new_results, old_results, legacy>>
                   ELSE /\ pc' = "archive_save"
                        /\ error' = error
                        /\ old_results' = SelectSeq(data, Old)
                        /\ new_results' = SelectSeq(data, New)
    /\ UNCHANGED <<clock, files, targets, historical_data, current_results,
                   combined_data, cutoff_date, pruned_data, chart_i, end_date,
                   charts, failed_charts, saved, runs, legacy>>

updated_archive == archive_data \o old_results

\* lines 59-62: the archive is rewritten with the old records appended
SaveArchive ==
    /\ pc = "archive_save"
    /\ archive_file' = [whole |-> TRUE, data |-> updated_archive]
    /\ pc' = "results_save"
    /\ UNCHANGED <<clock, results_file, locals, runs, arch, legacy>>

\* lines 63-64: IOError, printed.  Either open failed and the file is as it
\* was, or a write failed and the file holds the first k records only.
SaveArchiveFails ==
    /\ pc = "archive_save"
    /\ \/ archive_file' = archive_file
       \/ \E k \in 0..Len(updated_archive) :
             archive_file' = [whole |-> FALSE, data |-> SubSeq(updated_archive, 1, k)]
    /\ pc' = "results_save"
    /\ UNCHANGED <<clock, results_file, locals, runs, arch, legacy>>

\* lines 67-70: the results file is rewritten with the new records only
SaveResults ==
    /\ pc = "results_save"
    /\ results_file' = [whole |-> TRUE, data |-> new_results]
    /\ pc' = "archive_done"
    /\ UNCHANGED <<clock, archive_file, locals, runs, arch, legacy>>

\* lines 71-72: IOError, printed
SaveResultsFails ==
    /\ pc = "results_save"
    /\ \/ results_file' = results_file
       \/ \E k \in 0..Len(new_results) :
             results_file' = [whole |-> FALSE, data |-> SubSeq(new_results, 1, k)]
    /\ pc' = "archive_done"
    /\ UNCHANGED <<clock, archive_file, locals, runs, arch, legacy>>

\* what the archive file may hold when a behaviour starts
ArchivedEntries ==
    { Entry("A", "Down", Aware(Cutoff0 - timedelta(1), EDT)) }

ArchiveInit ==
    /\ clock \in Clock0..(Clock0 + MaxTicks)
    /\ pc = "archive"
    /\ \/ results_file \in {[whole |-> TRUE, data |-> d] :
                               d \in SeqsUpTo(FileEntries, MaxFile + 1)}
       \/ results_file = [whole |-> FALSE, data |-> <<>>]
    /\ \/ archive_file \in {[whole |-> TRUE, data |-> d] :
                               d \in SeqsUpTo(ArchivedEntries, MaxArchive)}
       \/ archive_file = [whole |-> FALSE, data |-> <<>>]
    /\ NoRun
    /\ charts = <<>>
    /\ failed_charts = {}
    /\ runs = 0
    /\ NoArchiving
    /\ NoLegacy

ArchiveNext ==
    \/ ArchiveLoad
    \/ SaveArchive \/ SaveArchiveFails
    \/ SaveResults \/ SaveResultsFails

ArchiveSpec == ArchiveInit /\ [][ArchiveNext]_vars

\* -------------------------------------------- .github/workflows/monitor.py
\* datetime.datetime.utcnow() and pd.Timestamp.utcnow().tz_localize(None) at
\* clock reading c: the naive UTC wall reading
utcnow(c) == [aware |-> FALSE, wall |-> c, off |-> UTC]

\* read_csv(parse_dates=["timestamp"]) of a row the script wrote: the naive
\* wall reading of its string
parse_dates(row) == row.timestamp.wall

\* .floor('D')
floor_day(wall) == (wall \div TicksPerDay) * TicksPerDay

\* df["status"].map({"Up": 1, "Down": 0})
spark_value(status) == IF status = "Up" THEN SparkUp ELSE SparkDown

\* df[df["timestamp"] >= cutoff.floor('D')]: the rows kept (positions in the
\* log), cutoff being utcnow - 7 days
recent_rows(log, c) ==
    {i \in DOMAIN log :
        parse_dates(log[i]) >= floor_day(utcnow(c).wall - timedelta(LEGACY_DAYS))}

\* resample("6h"): the bin of a wall reading; the bins start at midnight
resample_bin(wall) == wall \div (ResampleHours * TicksPerHour)

\* .last() of bin b: the value of the latest of its rows, the later row of
\* the log among rows of one timestamp; NaN for a bin with no row
bin_last(log, rows, b) ==
    LET held == {i \in rows : resample_bin(parse_dates(log[i])) = b}
        last == CHOOSE i \in held : \A j \in held :
                    \/ parse_dates(log[j]) < parse_dates(log[i])
                    \/ parse_dates(log[j]) = parse_dates(log[i]) /\ j <= i
    IN  IF held = {} THEN NaN ELSE spark_value(log[last].status)

\* .fillna(method="ffill"): a NaN takes the value of the last bin before it
\* that has one, and stays NaN when there is none
RECURSIVE ffill(_, _, _, _)
ffill(log, rows, first, b) ==
    IF bin_last(log, rows, b) # NaN THEN bin_last(log, rows, b)
    ELSE IF b = first THEN NaN
    ELSE ffill(log, rows, first, b - 1)

\* df["value"].tolist() after resample("6h").last().fillna(method="ffill")
\* .fillna(0): one value for each bin from that of the earliest row kept to
\* that of the latest
sparkline(log, c) ==
    LET rows == recent_rows(log, c)
        bins == {resample_bin(parse_dates(log[i])) : i \in rows}
        first == CHOOSE b \in bins : \A x \in bins : b <= x
        last == CHOOSE b \in bins : \A x \in bins : x <= b
    IN  [k \in 1..(last - first + 1) |->
            LET v == ffill(log, rows, first, first + k - 1)
            IN  IF v = NaN THEN SparkFill ELSE v]

\* lines 4-38: the host is pinged (with no ping command, an installation
\* that ends with CalledProcessError counts as a failed ping) and the answer
\* is appended to the log, stamped with the clock
LegacyPing ==
    /\ pc = "ping"
    /\ \E success \in BOOLEAN :
          status_log' = Append(status_log,
              [timestamp |-> isoformat(utcnow(clock)),
               status |-> IF success THEN "Up" ELSE "Down"])
    /\ pc' = "sparkline"
    /\ UNCHANGED <<clock, files, locals, runs, arch, sparkline_data>>

\* lines 9-22 with no ping command: sudo cannot be started (l.16) or ping is
\* still missing after the installation (l.19); the FileNotFoundError is no
\* CalledProcessError, nothing catches it and the script ends with no row
\* appended and no sparkline drawn
LegacyPingFails ==
    /\ pc = "ping"
    /\ pc' = "aborted"
    /\ error' = "FileNotFoundError"
    /\ UNCHANGED <<clock, files, targets, historical_data, current_results,
                   combined_data, cutoff_date, pruned_data, chart_i, end_date,
                   charts, failed_charts, saved, runs, arch, legacy>>

\* lines 44-69: the log is read again, cut to the last 7 days, resampled
\* and plotted
LegacySparkline ==
    /\ pc = "sparkline"
    /\ sparkline_data' = sparkline(status_log, clock)
    /\ pc' = "done"
    /\ UNCHANGED <<clock, files, locals, runs, arch, status_log>>

\* the rows earlier runs of the script may have left in the log: 8 days ago
\* (before the cutoff), 7 days ago, and 18 and 7 hours ago (three bins and one
\* bin before the current one)
LegacyEntries ==
    {[timestamp |-> isoformat(utcnow(Clock0 - t)), status |-> st] :
        t \in {timedelta(LEGACY_DAYS + 1), timedelta(LEGACY_DAYS),
               3 * ResampleHours * TicksPerHour, (ResampleHours + 1) * TicksPerHour},
        st \in Statuses}

\* the script appends to the log with the clock's reading: its rows are in
\* the order of their timestamps
LegacyLogs ==
    {log \in SeqsUpTo(LegacyEntries, MaxLog) :
        \A i, j \in DOMAIN log : i < j => parse_dates(log[i]) <= parse_dates(log[j])}

LegacyInit ==
    /\ clock = Clock0
    /\ pc = "ping"
    /\ status_log \in LegacyLogs
    /\ sparkline_data = <<>>
    /\ results_file = EmptyFile
    /\ archive_file = EmptyFile
    /\ NoRun
    /\ charts = <<>>
    /\ failed_charts = {}
    /\ runs = 0
    /\ NoArchiving

LegacyNext == LegacyPing \/ LegacyPingFails \/ LegacySparkline \/ Tick

LegacySpec == LegacyInit /\ [][LegacyNext]_vars

\* =================================================================== claims
\* the instant an observation's timestamp denotes (zone-aware timestamps)
ObsInstant(entry) == Instant(fromisoformat(entry.timestamp))

\* the observations of resource u that fall in the hourly bucket (d, h) of
\* Eastern wall time
Observed(u, d, h) ==
    {i \in DOMAIN pruned_data :
        /\ pruned_data[i].resource = u
        /\ dt_date(ObsInstant(pruned_data[i]) + utcoffset(ObsInstant(pruned_data[i]))) = d
        /\ dt_hour(ObsInstant(pruned_data[i]) + utcoffset(ObsInstant(pruned_data[i]))) = h}

\* the buckets of the grid of chart u
Cells(u) == {<<d, h>> : d \in grid_columns(charts[u]), h \in grid_index}

\* the value of bucket c in the grid of chart u
Value(u, c) == grid_df(charts[u], c[1], c[2])

\* the hours of the timeline of chart u that make up its bucket c
Hours(u, c) == scaffold_df(charts[u].end_date, c)

\* the place of a bucket in wall-clock order
Place(c) == c[1] * HoursPerDay + c[2]

\* ceil(retention_window / bucket_width)
BucketCount == (timedelta(HISTORY_DAYS) + TicksPerHour - 1) \div TicksPerHour

Pruned == pc \in {"open", "write", "chart", "dates", "grid", "report", "done"}

\* C1: the history a run's prune step returns holds only zone-aware
\* observations with timestamp >= now - 30 days, now being the clock the step
\* read; every record the step has written and the file it has written in
\* full are of that history: no older observation survives the run.
C1_Retention ==
    /\ Pruned =>
          /\ \E now \in Clock0..clock :
                Instant(cutoff_date) = now - timedelta(HISTORY_DAYS)
          /\ \A i \in DOMAIN pruned_data :
                /\ pruned_data[i].timestamp.kind = "aware"
                /\ ObsInstant(pruned_data[i]) >= Instant(cutoff_date)
    /\ pc = "write" =>
          \A i \in DOMAIN results_file.data :
              ObsInstant(results_file.data[i]) >= Instant(cutoff_date)
    /\ saved =>
          /\ results_file = [whole |-> TRUE, data |-> pruned_data]
          /\ \A i \in DOMAIN results_file.data :
                ObsInstant(results_file.data[i]) >= Instant(cutoff_date)

\* a run has pruned and saved: an old observation was dropped, others kept
C1_Witness ==
    /\ pc = "done"
    /\ saved
    /\ results_file.data # <<>>
    /\ \E i \in DOMAIN historical_data :
          /\ historical_data[i].timestamp.kind = "aware"
          /\ ObsInstant(historical_data[i]) < Instant(cutoff_date)
          /\ historical_data[i] \notin Range(results_file.data)

\* C2 (as claimed): the pruned history is the concatenation of the existing
\* history and the new observations less exactly those with timestamp <
\* now - 30 days; an observation at the cutoff itself is kept.
C2_KeepsFromCutoff ==
    Pruned =>
        LET Retained(entry) == ObsInstant(entry) >= Instant(cutoff_date)
        IN  pruned_data = SelectSeq(historical_data \o current_results, Retained)

\* C3 (as claimed): pruning a history that holds naive timestamps completes,
\* and keeps each naive observation iff its Eastern-localized instant is not
\* before the cutoff.
C3_NaiveLocalized ==
    (/\ pc \in {"open", "write", "chart", "dates", "grid", "report", "done", "aborted"}
     /\ \A i \in DOMAIN combined_data : combined_data[i].timestamp.kind # "bad")
    => /\ error \notin {"TypeError", "ValueError"}
       /\ \A i \in DOMAIN combined_data :
             combined_data[i].timestamp.kind = "naive" =>
                (combined_data[i] \in Range(pruned_data)
                 <=> Instant(localize(fromisoformat(combined_data[i].timestamp)))
                        >= Instant(cutoff_date))

\* C8 (as claimed): a malformed timestamp in the loaded history never ends
\* the run; the well-formed observations are pruned and the run reaches its
\* charts.
C8_MalformedSkipped ==
    (\E i \in DOMAIN historical_data : historical_data[i].timestamp.kind = "bad")
    => /\ pc # "aborted"
       /\ error = "none"

\* C9 (as claimed): the results file is replaced atomically; a complete file
\* on disk is never followed by a truncated or partly written one.
C9_AtomicReplace == [][results_file.whole => results_file'.whole]_vars

\* C10 (as claimed): when archive_old_data has ended, every record the
\* results file held is in the results file or in the archive file, and
\* every record the archive held is still in the archive.
C10_NoRecordLost ==
    pc = "archive_done" =>
        /\ \A i \in DOMAIN all_data :
              \/ all_data[i] \in Range(results_file.data)
              \/ all_data[i] \in Range(archive_file.data)
        /\ \A i \in DOMAIN archive_data :
              archive_data[i] \in Range(archive_file.data)

\* C4 (as claimed): in the series of a target a past bucket with no
\* observation holds the value of the last earlier bucket that has one
\* (forward fill), and no-data only when there is none.
C4_ForwardFill ==
    pc = "done" =>
        \A u \in DOMAIN charts : \A c \in Cells(u) :
            (/\ Hours(u, c) # {}
             /\ \A t \in Hours(u, c) : t + TicksPerHour <= Instant(charts[u].now_et)
             /\ Observed(u, c[1], c[2]) = {})
            => LET earlier == {e \in Cells(u) :
                                  /\ Place(e) < Place(c)
                                  /\ Observed(u, e[1], e[2]) # {}}
                   last == CHOOSE e \in earlier : \A f \in earlier : Place(f) <= Place(e)
               IN  Value(u, c) = IF earlier = {} THEN MissingVal ELSE Value(u, last)

\* C5 (as claimed): every bucket that starts after now is Future (NaN),
\* whatever observations the history holds.
C5_FutureMasked ==
    pc = "done" =>
        \A u \in DOMAIN charts : \A c \in Cells(u) :
            (\A t \in Hours(u, c) : t > Instant(charts[u].now_et))
            => Value(u, c) = NaN

\* C6 (as claimed): every configured target gets a series of exactly
\* ceil(30 days / 1 hour) buckets; a target with no observation gets no-data
\* in its past buckets and Future in the others.
C6_EveryTargetCharted ==
    pc = "done" =>
        \A u \in Range(target_urls) :
            /\ u \in DOMAIN charts
            /\ Cardinality(Cells(u)) = BucketCount
            /\ resource_df(pruned_data, u) = {} =>
                  \A c \in Cells(u) :
                      Value(u, c) =
                          IF \E t \in Hours(u, c) : t < Instant(charts[u].now_et)
                          THEN MissingVal ELSE NaN

\* the sparkline of the workflow script forward-fills: a 6-hour bin with no
\* row of the log holds the value of the bin before it (the fill that
\* generate_chart does not have)
Legacy_ForwardFill ==
    pc = "done" /\ sparkline_data # <<>> =>
        LET rows == recent_rows(status_log, clock)
            bins == {resample_bin(parse_dates(status_log[i])) : i \in rows}
            first == CHOOSE b \in bins : \A x \in bins : b <= x
        IN  \A k \in DOMAIN sparkline_data :
                (first + k - 1) \notin bins =>
                    k > 1 /\ sparkline_data[k] = sparkline_data[k - 1]

\* a log with an Up 18 hours ago and a Down now: the two bins between them
\* are Up
Legacy_Witness ==
    /\ pc = "done"
    /\ Len(status_log) = 2
    /\ sparkline_data = <<SparkUp, SparkUp, SparkUp, SparkDown>>

\* C7: a bucket in which observations of the target fall holds the outcome
\* of one with the latest timestamp among them, wherever it stands in the
\* history.
C7_LatestWins ==
    pc = "done" =>
        \A u \in DOMAIN charts :
            \A d \in grid_columns(charts[u]) : \A h \in grid_index :
                LET obs == Observed(u, d, h)
                IN  obs # {} =>
                       \E i \in obs :
                          /\ \A j \in obs :
                                ObsInstant(pruned_data[j]) <= ObsInstant(pruned_data[i])
                          /\ Value(u, <<d, h>>) = status_map(pruned_data[i].status)

\* the later observation (Up) stands before the earlier one (Down) in the
\* history, both in the bucket one hour ago: the bucket is Up
C7_Witness ==
    /\ pc = "done"
    /\ Len(pruned_data) = 2
    /\ {1, 2} = Observed("A", StartDay, StartHour - 1)
    /\ ObsInstant(pruned_data[1]) > ObsInstant(pruned_data[2])
    /\ pruned_data[1].status = "Up"
    /\ pruned_data[2].status = "Down"
    /\ "A" \in DOMAIN charts
    /\ Value("A", <<StartDay, StartHour - 1>>) = UpVal

====
